---- MODULE Spec2Model ----
(***************************************************************************)
(* A model of the virtual-server session protocol: the last-write-wins     *)
(* variables of module/lib/common.ts, the client of module/lib/client.ts   *)
(* and the server of module/lib/server.ts.                                 *)
(*                                                                         *)
(* Strings that the code compares with < (peer ids) are sequences of code  *)
(* units, compared lexicographically as JavaScript does.  The value null   *)
(* is Null, the value true is BTrue.                                       *)
(***************************************************************************)
EXTENDS Integers, Sequences, FiniteSets, TLC

(* ------------------------------ bounds --------------------------------- *)
\* SpecVar: write times 0..MaxTime, code units 1..MaxUnit.
MaxTime == 1
MaxUnit == 2
\* Spec: connection attempts, heartbeat periods, posts, and the number of
\* envelopes on the wire below which the environment starts a new exchange.
MaxConn == 2
MaxTicks == 4
MaxPosts == 1
MaxInFlight == 1
\* SpecPost and SpecSync: one connection that stays up, with more posts and
\* writes and a longer wire.
WidePosts == 2
WideInFlight == 2
MaxWrites == 1
MaxClock == 1
\* Reads of the lazy variable.
MaxReads == 1
\* Socket pushes of the server.
MaxPushes == 1
\* SpecEvict: the envelopes on the wire below which a heartbeat is sent.
HbInFlight == 3
\* SpecSweep: the clock, in heartbeat periods, and the runs of the sweep.
SweepClock == 4
MaxSweeps == 2

(* ------------------------- program constants -------------------------- *)
\* this.heartbeatDelta >= 3
Strikes == 3
\* this.heartbeatPeriod*3: the age, in heartbeat periods, past which the sweep
\* evicts a connection.
TrimPeriods == 3

(* --------------------------- value encodings --------------------------- *)
Null == "null"
BTrue == "true"
EmptyStr == << >>

VARIABLES lww, client, server, net, hist, now

vars == << lww, client, server, net, hist, now >>
session == << client, server, net, hist, now >>

(* ------------------------- common.ts: strings -------------------------- *)
\* JavaScript's a < b on two strings: lexicographic on code units, a proper
\* prefix being smaller.
RECURSIVE StrLess(_, _)
StrLess(a, b) ==
  IF b = << >> THEN FALSE
  ELSE IF a = << >> THEN TRUE
  ELSE IF Head(a) < Head(b) THEN TRUE
  ELSE IF Head(a) > Head(b) THEN FALSE
  ELSE StrLess(Tail(a), Tail(b))

(* ------------------------ common.ts: Variable -------------------------- *)
\* new ActiveVariable(name, value, user, onChange) / new LazyVariable(...):
\* lastUpdate = 0 and lastUpdater = "".
Variable(value) ==
  [value |-> value, lastUpdate |-> 0, lastUpdater |-> EmptyStr]

\* The guard of set(): the write is later, or simultaneous from a greater updater.
SetGuardLoose(v, from, time) ==
  v.lastUpdate <= time

SetGuard(v, from, time) ==
  \/ v.lastUpdate < time
  \/ (v.lastUpdate = time /\ StrLess(v.lastUpdater, from))

\* A set() that stamps the variable before checking the guard.
ActiveVariableSetStamping(v, value, from, time, triggerCallback) ==
  IF SetGuard(v, from, time)
  THEN [var |-> [value |-> value, lastUpdate |-> time, lastUpdater |-> from],
        ret |-> TRUE, onChange |-> triggerCallback, oldValue |-> v.value]
  ELSE [var |-> [v EXCEPT !.lastUpdate = time],
        ret |-> FALSE, onChange |-> triggerCallback, oldValue |-> v.value]

\* ActiveVariable.set(value, from, time, triggerCallback) with _set and
\* _setPrivateValue: the new variable, the returned boolean, whether onChange
\* ran and the oldValue it was given.
ActiveVariableSet(v, value, from, time, triggerCallback) ==
  IF SetGuard(v, from, time)
  THEN [var |-> [value |-> value, lastUpdate |-> time, lastUpdater |-> from],
        ret |-> TRUE, onChange |-> triggerCallback, oldValue |-> v.value]
  ELSE [var |-> v, ret |-> FALSE, onChange |-> FALSE, oldValue |-> v.value]

\* LazyVariable.set(value, from, time, triggerCallback): the same code.
LazyVariableSet(v, value, from, time, triggerCallback) ==
  IF SetGuard(v, from, time)
  THEN [var |-> [value |-> value, lastUpdate |-> time, lastUpdater |-> from],
        ret |-> TRUE, onChange |-> triggerCallback, oldValue |-> v.value]
  ELSE [var |-> v, ret |-> FALSE, onChange |-> FALSE, oldValue |-> v.value]

VariableSet(kind, v, value, from, time, triggerCallback) ==
  IF kind = "active"
  THEN ActiveVariableSet(v, value, from, time, triggerCallback)
  ELSE LazyVariableSet(v, value, from, time, triggerCallback)

(* ---------------- two replicas of one variable (SpecVar) --------------- *)
Units == 1..MaxUnit
\* Updater ids: "", the one-unit strings and one two-unit string.
Ids == {EmptyStr} \cup {<<a>> : a \in Units} \cup {<<1, 1>>}
\* Two distinct non-null values.
Values == {"v1", "v2"}
Times == 0..MaxTime
Writes == [value : Values, from : Ids, time : Times]
Replicas == {"a", "b"}

\* Replica a applies writes[1] then writes[2]; replica b the other way round.
WriteOf(r, n) == IF r = "a" THEN lww.writes[n] ELSE lww.writes[3 - n]

LwwIdle ==
  [kind |-> "active", trigger |-> FALSE,
   writes |-> << [value |-> "v1", from |-> EmptyStr, time |-> 0],
                 [value |-> "v1", from |-> EmptyStr, time |-> 0] >>,
   rep |-> [r \in Replicas |-> Variable(Null)],
   applied |-> [r \in Replicas |-> 0],
   ret |-> [r \in Replicas |-> FALSE],
   calls |-> [r \in Replicas |-> 0]]

(* ----------------------------- the session ----------------------------- *)
\* Connection attempts of the client are numbered 1..MaxConn.
Conns == 1..MaxConn
\* The server's password (test.js) and a wrong one.
Password == "abcd"
WrongPassword == "wxyz"
\* Peer ids: the server's is the one it was constructed with, the client's is
\* the one the broker assigned.
ServerId == <<2>>
ClientId == <<1>>
\* The one active variable the server creates at start-up (test.js) and the
\* post paths: "test" has the handler of test.js, "echo" has none.
VarName == "test"
\* The lazy variable the application shares.
LazyName == "lz"
PostPaths == {"test", "echo"}
PostBodies == {"b1"}
PostUids == 1..(IF MaxPosts > WidePosts THEN MaxPosts ELSE WidePosts)

\* An envelope.  type is the primary type (pathPattern), sub the sub-path
\* (subPathPattern) of post/<path>, id is metadata.id or the <id> of
\* response/<id>.  stamped tells whether body.from and body.time are present,
\* vars whether body.vars is, with value the value of body.vars.active and
\* lazy the names of body.vars.lazy.  uid and ruid are history: the request's
\* serial number and the serial number of the request a response was
\* produced for.
Msg(type) ==
  [type |-> type, sub |-> "", id |-> -1, body |-> Null, status |-> 0,
   name |-> "", mode |-> "", action |-> "", value |-> Null,
   stamped |-> FALSE, from |-> EmptyStr, time |-> 0,
   vars |-> FALSE, lazy |-> {}, uid |-> 0, ruid |-> 0]

\* Map helpers: a JavaScript Map is a sequence of entries in insertion order.
HasKey(mp, id) == \E i \in DOMAIN mp : mp[i].id = id
MapGet(mp, id) == mp[CHOOSE i \in DOMAIN mp : mp[i].id = id].data
MapSet(mp, id, data) ==
  IF HasKey(mp, id)
  THEN [i \in DOMAIN mp |-> IF mp[i].id = id THEN [id |-> id, data |-> data]
                                             ELSE mp[i]]
  ELSE Append(mp, [id |-> id, data |-> data])
MapDelete(mp, id) == SelectSeq(mp, LAMBDA e : e.id # id)
SeqHas(q, x) == \E i \in DOMAIN q : q[i] = x

\* The world a handler runs in; thrown marks an uncaught exception.
World ==
  [c |-> client, s |-> server, n |-> net, h |-> hist, now |-> now,
   thrown |-> FALSE]

(* ---------------------- client.ts: correlation ------------------------- *)
\* A getNextAvailableId that leaves the id it returns in the pool.
getNextAvailableIdKeeping(c) ==
  IF c.availableMessageIds = << >>
  THEN [id |-> c.maxMessageId, c |-> [c EXCEPT !.maxMessageId = @ + 1]]
  ELSE [id |-> Head(c.availableMessageIds), c |-> c]

\* An allocation that never takes an id from the pool.
getNextAvailableIdFresh(c) ==
  [id |-> c.maxMessageId, c |-> [c EXCEPT !.maxMessageId = @ + 1]]

\* Client.getNextAvailableId: the first id of the pool, removed from it, or
\* maxMessageId++ when the pool is empty.
getNextAvailableId(c) ==
  IF c.availableMessageIds = << >>
  THEN [id |-> c.maxMessageId, c |-> [c EXCEPT !.maxMessageId = @ + 1]]
  ELSE [id |-> Head(c.availableMessageIds),
        c |-> [c EXCEPT !.availableMessageIds = Tail(@)]]

\* Client.releaseId: Set.add keeps an id that is already in the pool in place.
releaseId(c, id) ==
  IF SeqHas(c.availableMessageIds, id) THEN c
  ELSE [c EXCEPT !.availableMessageIds = Append(@, id)]

\* this.conn.send(message): the transport carries it when the current
\* connection is open and drops it otherwise.
connSend(w, message) ==
  IF w.c.conn # 0 /\ w.n.st[w.c.conn] = "open"
  THEN [w EXCEPT !.n.c2s[w.c.conn] = Append(@, message)]
  ELSE w

\* Client.send(type, body): allocate an id, transmit or queue, register the
\* pending request.  History: clobbered records a messagePromises.set over a
\* pending entry, queuedNew the requests first queued since the last reconnect.
send(w, msg) ==
  LET a == getNextAvailableId(w.c)
      message == [msg EXCEPT !.id = a.id]
      w1 == [w EXCEPT !.c = a.c]
      w2 == IF w1.c.initialized
            THEN connSend(w1, message)
            ELSE [w1 EXCEPT !.c.sendQueue = Append(@, message),
                            !.h.queuedNew = Append(@, message)]
  IN [w2 EXCEPT !.h.clobbered = @ \/ HasKey(w2.c.messagePromises, a.id),
                !.c.messagePromises = MapSet(@, a.id, message)]

\* Client.resend(message), for each message of msgs in order.
RECURSIVE resendAll(_, _)
resendAll(w, msgs) ==
  IF msgs = << >> THEN w
  ELSE LET w1 == IF w.c.initialized
                 THEN connSend(w, Head(msgs))
                 ELSE [w EXCEPT !.c.sendQueue = Append(@, Head(msgs))]
       IN resendAll(w1, Tail(msgs))

\* Client.emptySendQueue: transmit every queued message; the queue is kept.
RECURSIVE sendEach(_, _)
sendEach(w, msgs) ==
  IF msgs = << >> THEN w ELSE sendEach(connSend(w, Head(msgs)), Tail(msgs))

emptySendQueue(w) ==
  IF ~w.c.initialized THEN w ELSE sendEach(w, w.c.sendQueue)

(* ----------------------- client.ts: listeners -------------------------- *)
\* The event types of Client.on and Client.off, and two callbacks: the
\* handler the constructor registers with on("reconnect", ...) and a
\* callback of the application.
EventTypes ==
  {"connect", "reconnect", "disconnect", "error", "init", "variable",
   "socket"}
InternalHandler == "internal"
UserCallback == "user"

\* Client.on(eventType, callback): the case "reconnect" has no break, so the
\* callback is pushed to reconnectListeners and to disconnectListeners.
on(l, eventType, callback) ==
  IF eventType = "reconnect"
  THEN [l EXCEPT !["reconnect"] = Append(@, callback),
                 !["disconnect"] = Append(@, callback)]
  ELSE [l EXCEPT ![eventType] = Append(@, callback)]

\* arr.splice(i, 1) for the first i with arr[i] == callback.
RemoveFirst(arr, callback) ==
  IF ~SeqHas(arr, callback) THEN arr
  ELSE LET i == CHOOSE j \in DOMAIN arr :
                  /\ arr[j] = callback
                  /\ \A h \in 1..(j - 1) : arr[h] # callback
       IN SubSeq(arr, 1, i - 1) \o SubSeq(arr, i + 1, Len(arr))

\* Client.off(eventType, callback): the first occurrence of the callback
\* leaves the list of that event type, and no other list.
off(l, eventType, callback) ==
  [l EXCEPT ![eventType] = RemoveFirst(@, callback)]

\* The listeners test.js registers on the client: connect, disconnect, init
\* and variable.
TestListeners ==
  on(on(on(on([e \in EventTypes |-> << >>], "connect", UserCallback),
           "disconnect", UserCallback), "init", UserCallback),
     "variable", UserCallback)

(* ----------------------- client.ts: lifecycle -------------------------- *)
\* Client.timeoutTimeout: arm a watchdog and remember it in timeoutId; a
\* watchdog armed earlier and still pending can no longer be cancelled.
timeoutTimeout(w) ==
  [w EXCEPT !.c.timeouts = @ + 1, !.c.timeoutIdLive = TRUE]

\* clearTimeout(this.timeoutId)
clearTimeoutId(w) ==
  IF w.c.timeoutIdLive
  THEN [w EXCEPT !.c.timeouts = @ - 1, !.c.timeoutIdLive = FALSE]
  ELSE w

\* Client.reconnect(): reset the session flags and open the next connection.
reconnect(w) ==
  LET k == w.c.conn + 1
  IN [w EXCEPT !.c.initialized = FALSE,
               !.c.heartbeatDelta = 0,
               !.c.isConnectionDead = FALSE,
               !.c.conn = k,
               !.n.st[k] = "created"]

\* Client.reconnect() when this.peer.connect returns nothing: the session is
\* marked dead with its reason, then the forEach over disconnectListeners
\* evaluates this.conn.peer for the first listener (the one test.js
\* registers), which throws a TypeError out of reconnect(): no listener runs.
reconnectAbsent(w) ==
  [w EXCEPT !.c.initialized = FALSE,
            !.c.heartbeatDelta = 0,
            !.c.isConnectionDead = TRUE,
            !.c.disconnectReason = "server does not exist",
            !.thrown = TRUE,
            !.h.clientThrew = TRUE]

\* A reconnect loop that forgets every pending request after resending it.
resendPendingClearing(w) ==
  LET others == SelectSeq(w.c.messagePromises, LAMBDA e : e.data.type # "hb")
      msgs == [i \in DOMAIN others |-> others[i].data]
  IN resendAll([w EXCEPT !.c.messagePromises = << >>], msgs)

\* The loop of the handler the constructor registers with on("reconnect"):
\* heartbeat entries are deleted, every other pending request is resent.
resendPending(w) ==
  LET others == SelectSeq(w.c.messagePromises, LAMBDA e : e.data.type # "hb")
      msgs == [i \in DOMAIN others |-> others[i].data]
  IN resendAll([w EXCEPT !.c.messagePromises = others], msgs)

\* The whole handler: after the loop, unless the session is dead, reconnect
\* and arm the watchdog.
internalReconnectHandler(w) ==
  LET w1 == resendPending([w EXCEPT !.h.handlerRuns = @ + 1])
  IN IF w1.c.isConnectionDead THEN w1 ELSE timeoutTimeout(reconnect(w1))

\* this.reconnectListeners.forEach: the reconnect event.  History: the
\* non-heartbeat requests pending when the event fired.
fireReconnect(w) ==
  LET pend == SelectSeq(w.c.messagePromises, LAMBDA e : e.data.type # "hb")
      w1 == [w EXCEPT !.h.reconnects = @ + 1,
                      !.h.pendingAtReconnect =
                         [i \in DOMAIN pend |-> pend[i].data],
                      !.h.queuedNew = << >>]
  IN IF SeqHas(w.c.listeners["reconnect"], InternalHandler)
     THEN internalReconnectHandler(w1)
     ELSE w1

\* this.disconnectListeners.forEach: on("reconnect", cb) falls through to the
\* disconnect case, so the constructor's handler is a disconnect listener too.
fireDisconnect(w) ==
  LET w1 == [w EXCEPT !.h.disconnects = TRUE]
  IN IF SeqHas(w.c.listeners["disconnect"], InternalHandler)
     THEN internalReconnectHandler(w1)
     ELSE w1

\* Client.doInit(response): the variables of the snapshot replace the
\* client's; a response without body.vars throws inside the promise callback.
doInit(w, response) ==
  IF response.vars
  THEN [w EXCEPT !.c.active = [has |-> TRUE, var |-> Variable(response.value)],
                 !.c.lazy = IF LazyName \in response.lazy
                            THEN [has |-> TRUE, var |-> Variable(Null)]
                            ELSE @,
                 !.c.lazyNames = @ \cup response.lazy,
                 !.h.clientVarEvents = @ + 1 + Cardinality(response.lazy),
                 !.h.inited = TRUE]
  ELSE w

\* A continuation that does not count an answered heartbeat back down.
resolveThenCounting(w, req, response) ==
  CASE req.type = "init" -> doInit(w, response)
    [] req.type = "hb" -> [w EXCEPT !.h.hbOut = @ - 1]
    [] req.type = "post" ->
         [w EXCEPT !.h.results[req.uid] =
                      [done |-> TRUE, status |-> response.status,
                       body |-> response.body, ruid |-> response.ruid]]
    [] OTHER -> w

\* The .then callback of the promise send() returned, by the request's type:
\* init -> doInit, hb -> heartbeatDelta--, post -> the caller's future.
resolveThen(w, req, response) ==
  CASE req.type = "init" -> doInit(w, response)
    [] req.type = "hb" ->
         [w EXCEPT !.c.heartbeatDelta = @ - 1, !.h.hbOut = @ - 1]
    [] req.type = "post" ->
         [w EXCEPT !.h.results[req.uid] =
                      [done |-> TRUE, status |-> response.status,
                       body |-> response.body, ruid |-> response.ruid]]
    [] req.type = "var" /\ req.action = "get" ->
         [w EXCEPT !.h.lazyGot = Append(@, response.body)]
    [] OTHER -> w

\* A response case that resolves the pending request and leaves it in the
\* table.
onResponseKeeping(w, data) ==
  LET w1 == [w EXCEPT !.c = releaseId(w.c, data.id),
                      !.h.responses = @ + 1]
  IN IF HasKey(w1.c.messagePromises, data.id)
     THEN resolveThen([w1 EXCEPT !.h.resolves = @ + 1],
                      MapGet(w1.c.messagePromises, data.id), data)
     ELSE w1

\* The data handler, case "response": release the id, resolve and delete the
\* pending request if there is one.
onResponse(w, data) ==
  LET w1 == [w EXCEPT !.c = releaseId(w.c, data.id),
                      !.h.responses = @ + 1]
  IN IF HasKey(w1.c.messagePromises, data.id)
     THEN resolveThen(
            [w1 EXCEPT !.c.messagePromises = MapDelete(@, data.id),
                       !.h.resolves = @ + 1],
            MapGet(w1.c.messagePromises, data.id), data)
     ELSE w1

\* Connection.close(), by either side: nothing more is delivered.
connClose(w, k) ==
  [w EXCEPT !.n.st[k] = "down", !.n.c2s[k] = << >>, !.n.s2c[k] = << >>]

\* The data handler of connection k, case "disconnect".
onDisconnect(w, k, data) ==
  LET w1 == [w EXCEPT !.c.hbInterval = @ \ {k},
                      !.c.isConnectionDead = TRUE,
                      !.c.disconnectReason = data.body]
  IN send(fireDisconnect(w1), [Msg("disconnect") EXCEPT !.body = BTrue])

\* Client.getActiveVariable(name): created with null when missing.
clientActive(c) ==
  IF c.active.has THEN c.active.var ELSE Variable(Null)

\* The data handler, case "var": a var envelope of the server carries neither
\* from nor time, so set() takes its defaults this.user and the current time.
\* The variable listeners run whenever the value differs, whatever set()
\* returned.
onVar(w, data) ==
  LET v == clientActive(w.c)
      from == IF data.stamped THEN data.from ELSE ClientId
      time == IF data.stamped THEN data.time ELSE w.now
      res == ActiveVariableSet(v, data.value, from, time, FALSE)
  IN IF v.value # data.value
     THEN [w EXCEPT !.c.active = [has |-> TRUE, var |-> res.var],
                    !.h.clientVarEvents = @ + 1]
     ELSE [w EXCEPT !.c.active = [has |-> TRUE, var |-> v]]

\* The data handler registered on connection k by its open handler.
clientData(w, k, data) ==
  LET w1 == clearTimeoutId(w)
  IN CASE data.type = "response" -> onResponse(w1, data)
       [] data.type = "disconnect" -> onDisconnect(w1, k, data)
       [] data.type = "var" -> onVar(w1, data)
       [] OTHER -> w1

\* The open handler of connection k.
connOpen(w, k) ==
  LET w0 == [w EXCEPT !.n.st[k] = "open"]
      w1 == IF w0.c.isConnectionDead THEN connClose(w0, w0.c.conn) ELSE w0
      w2 == [w1 EXCEPT !.c.initialized = TRUE]
      w3 == send(w2, [Msg("init") EXCEPT !.body = w2.c.password])
      w4 == emptySendQueue(w3)
  IN [w4 EXCEPT !.c.hbInterval = @ \cup {k},
                !.h.clientConnectEvents = @ + 1,
                !.h.flushed = w3.c.sendQueue,
                !.h.flushExpected = w.h.pendingAtReconnect \o w3.h.queuedNew,
                !.h.flushConn = k]

\* A heartbeat period that leaves its timer running after three strikes.
hbTickRunning(w, k) ==
  IF w.c.heartbeatDelta >= Strikes
  THEN LET w1 == [w EXCEPT !.c.initialized = FALSE]
       IN IF ~w1.c.isConnectionDead THEN fireReconnect(w1) ELSE w1
  ELSE LET w1 == [w EXCEPT !.c.heartbeatDelta = @ + 1,
                           !.h.hbMissed = @ \/ (w.h.hbOut > 0),
                           !.h.hbOut = @ + 1]
       IN send(w1, [Msg("hb") EXCEPT !.body = BTrue])

\* One period of the hbInterval of connection k.
hbTick(w, k) ==
  IF w.c.heartbeatDelta >= Strikes
  THEN LET w1 == [w EXCEPT !.c.initialized = FALSE,
                           !.c.hbInterval = @ \ {k}]
       IN IF ~w1.c.isConnectionDead THEN fireReconnect(w1) ELSE w1
  ELSE LET w1 == [w EXCEPT !.c.heartbeatDelta = @ + 1,
                           !.h.hbMissed = @ \/ (w.h.hbOut > 0),
                           !.h.hbOut = @ + 1]
       IN send(w1, [Msg("hb") EXCEPT !.body = BTrue])

\* A watchdog callback that does not look at initialized.
watchdogUnguarded(w) ==
  fireDisconnect([w EXCEPT !.c.initialized = TRUE,
                           !.c.isConnectionDead = TRUE,
                           !.c.disconnectReason = "timeout"])

\* The callback of timeoutTimeout.
watchdog(w) ==
  IF ~w.c.initialized
  THEN fireDisconnect([w EXCEPT !.c.initialized = TRUE,
                                !.c.isConnectionDead = TRUE,
                                !.c.disconnectReason = "timeout"])
  ELSE w

\* Client.onVariableChange("active", name, oldValue): one var/set to the
\* server, then the variable listeners when the value differs from oldValue.
clientOnVariableChange(w, oldValue) ==
  LET w1 == send(w, [Msg("var") EXCEPT !.name = VarName, !.mode = "active",
                                       !.action = "set",
                                       !.value = w.c.active.var.value,
                                       !.stamped = TRUE, !.from = ClientId,
                                       !.time = w.now])
  IN IF w.c.active.var.value # oldValue
     THEN [w1 EXCEPT !.h.clientVarEvents = @ + 1]
     ELSE w1

\* client.getActiveVariable(name).set(value)
clientSetVar(w, value) ==
  LET res == ActiveVariableSet(clientActive(w.c), value, ClientId, w.now, TRUE)
      w1 == [w EXCEPT !.c.active = [has |-> TRUE, var |-> res.var]]
  IN IF res.onChange THEN clientOnVariableChange(w1, res.oldValue) ELSE w1

\* Client.getLazyVariable(name): created with null when missing.
clientLazy(c) ==
  IF c.lazy.has THEN c.lazy.var ELSE Variable(Null)

\* Client.onVariableChange("lazy", name, oldValue): one var/set to the
\* server, then the variable listeners when the value differs from oldValue.
clientOnLazyChange(w, oldValue) ==
  LET w1 == send(w, [Msg("var") EXCEPT !.name = LazyName, !.mode = "lazy",
                                       !.action = "set",
                                       !.value = w.c.lazy.var.value,
                                       !.stamped = TRUE, !.from = ClientId,
                                       !.time = w.now])
  IN IF w.c.lazy.var.value # oldValue
     THEN [w1 EXCEPT !.h.clientVarEvents = @ + 1]
     ELSE w1

\* client.getLazyVariable(name).set(value)
clientSetLazy(w, value) ==
  LET res == LazyVariableSet(clientLazy(w.c), value, ClientId, w.now, TRUE)
      w1 == [w EXCEPT !.c.lazy = [has |-> TRUE, var |-> res.var],
                      !.c.lazyNames = @ \cup {LazyName}]
  IN IF res.onChange THEN clientOnLazyChange(w1, res.oldValue) ELSE w1

\* client.getLazyVariable(name).get(): Client.onLazyVariableGet sends a var
\* request with action "get"; the cached value takes no part.
clientGetLazy(w) ==
  send([w EXCEPT !.c.lazy = [has |-> TRUE, var |-> clientLazy(w.c)],
                 !.c.lazyNames = @ \cup {LazyName}],
       [Msg("var") EXCEPT !.name = LazyName, !.mode = "lazy",
                          !.action = "get"])

(* ----------------------------- server.ts ------------------------------- *)
\* Server.sendTo(connId, type, body): this.conns.get(connId).conn.send; the
\* lookup of a peer that is not registered throws a TypeError.
sendTo(w, msg) ==
  IF w.thrown THEN w
  ELSE IF w.s.conns = 0
  THEN [w EXCEPT !.thrown = TRUE, !.h.serverThrew = TRUE]
  ELSE IF w.n.st[w.s.conns] = "open"
  THEN [w EXCEPT !.n.s2c[w.s.conns] = Append(@, msg)]
  ELSE w

\* Server.sendToAll(type, body): sendTo for every key of the registry.
sendToAll(w, msg) ==
  IF w.thrown \/ w.s.conns = 0 THEN w ELSE sendTo(w, msg)

\* Server.respondTo(connId, packetId, status, body); ruid is history.
respondTo(w, req, status, body) ==
  sendTo(w, [Msg("response") EXCEPT !.id = req.id, !.status = status,
                                    !.body = body, !.ruid = req.uid])

\* Server.closeConnection(id): close, deregister, count down, fire the
\* disconnect event; the lookup of a peer that is not registered throws.
closeConnection(w) ==
  IF w.thrown THEN w
  ELSE IF w.s.conns = 0
  THEN [w EXCEPT !.thrown = TRUE, !.h.serverThrew = TRUE]
  ELSE [connClose(w, w.s.conns) EXCEPT !.s.conns = 0,
                                       !.s.connectionCount = @ - 1,
                                       !.h.disconnectEvents = @ + 1]

\* A sweep that also evicts a connection whose heartbeat is exactly
\* TrimPeriods old.
trimHeartlessEager(w) ==
  IF w.s.conns # 0 /\ w.s.rec[w.s.conns].hb <= w.now - TrimPeriods
  THEN closeConnection(w)
  ELSE w

\* Server.trimHeartless: every registry entry whose hb is below
\* now - heartbeatPeriod*3 is closed by closeConnection.
trimHeartless(w) ==
  IF w.s.conns # 0 /\ w.s.rec[w.s.conns].hb < w.now - TrimPeriods
  THEN closeConnection(w)
  ELSE w

\* Server.getActiveVarData(): the value of every entry of globalVars.active,
\* which holds the one variable VarName.
getActiveVarData(s) == s.active.value

\* Server.getLazyVarData(): the loop runs over globalVars.active, so the list
\* holds the names of the active variables.
getLazyVarData(s) == {VarName}

\* An onVariableChange that runs the variable listeners on every winning
\* write.
serverOnVariableChangeAlways(w, oldValue) ==
  [sendToAll(w, [Msg("var") EXCEPT !.name = VarName,
                                   !.value = w.s.active.value])
     EXCEPT !.h.serverVarEvents = @ + 1]

\* Server.onVariableChange("active", name, oldValue): broadcast the value,
\* then run the variable listeners when the value differs from oldValue.
serverOnVariableChange(w, oldValue) ==
  LET w1 == sendToAll(w, [Msg("var") EXCEPT !.name = VarName,
                                            !.value = w.s.active.value])
  IN IF w.s.active.value # oldValue
     THEN [w1 EXCEPT !.h.serverVarEvents = @ + 1]
     ELSE w1

\* An init case that marks the connection authenticated before it compares
\* the credential.
onInitMarking(w, k, data) ==
  LET w0 == [w EXCEPT !.s.rec[k].init = TRUE]
  IN IF data.body = Password
     THEN LET w2 == sendTo(w0, [Msg("response") EXCEPT
                                  !.id = data.id, !.status = 200,
                                  !.vars = TRUE,
                                  !.value = getActiveVarData(w0.s),
                                  !.lazy = getLazyVarData(w0.s),
                                  !.ruid = data.uid])
          IN IF w2.thrown THEN w2
             ELSE [w2 EXCEPT !.s.connectionCount = @ + 1,
                             !.h.connectEvents = @ + 1]
     ELSE sendTo(w0, [Msg("disconnect") EXCEPT !.body = "password"])

\* The data handler of connection k, case "init".
onInit(w, k, data) ==
  IF data.body = Password
  THEN LET w1 == [w EXCEPT !.s.rec[k].init = TRUE]
           w2 == sendTo(w1, [Msg("response") EXCEPT
                               !.id = data.id, !.status = 200, !.vars = TRUE,
                               !.value = getActiveVarData(w1.s),
                               !.lazy = getLazyVarData(w1.s),
                               !.ruid = data.uid])
       IN IF w2.thrown THEN w2
          ELSE [w2 EXCEPT !.s.connectionCount = @ + 1,
                          !.h.connectEvents = @ + 1]
  ELSE sendTo(w, [Msg("disconnect") EXCEPT !.body = "password"])

\* The handler test.js registers for "test": res.send(req.body), and no
\* return value.
testHandler(w, data) ==
  [w |-> respondTo(w, data, 200, data.body), ret |-> FALSE]

\* The data handler, case "post".  History: received lists the serial
\* numbers of the posts in the order the server processed them.
onPost(w, data) ==
  LET w0 == [w EXCEPT !.h.received = Append(@, data.uid)]
  IN IF data.sub = "test"
     THEN LET r == testHandler(w0, data)
          IN IF ~r.ret THEN respondTo(r.w, data, 200, BTrue) ELSE r.w
     ELSE respondTo(w0, data, 404, BTrue)

\* The data handler, case "var".
onServerVar(w, data) ==
  IF data.action = "set"
  THEN IF data.mode = "active"
       THEN LET res == ActiveVariableSet(w.s.active, data.value, data.from,
                                         data.time, TRUE)
                w1 == [w EXCEPT !.s.active = res.var]
                w2 == IF res.onChange
                      THEN serverOnVariableChange(w1, res.oldValue)
                      ELSE w1
            IN respondTo(w2, data, 200, BTrue)
       ELSE LET res == LazyVariableSet(w.s.lazy, data.value, data.from,
                                       data.time, TRUE)
            IN respondTo([w EXCEPT !.s.lazy = res.var, !.s.lazyHas = TRUE],
                         data, 200, BTrue)
  ELSE IF data.mode = "active"
       THEN respondTo(w, data, 200, w.s.active.value)
       ELSE respondTo([w EXCEPT !.s.lazyHas = TRUE,
                                !.h.lazyServed = Append(@, w.s.lazy.value)],
                      data, 200, w.s.lazy.value)

\* A data handler without the check for an authenticated connection.
serverDataUngated(w, k, data) ==
  LET w1 ==
        CASE data.type = "init" -> onInit(w, k, data)
          [] data.type = "hb" -> respondTo(w, data, 200, BTrue)
          [] data.type = "post" -> onPost(w, data)
          [] data.type = "disconnect-req" ->
               sendTo(w, [Msg("disconnect") EXCEPT !.body = "disconnect"])
          [] data.type = "disconnect" -> closeConnection(connClose(w, k))
          [] data.type = "var" -> onServerVar(w, data)
          [] OTHER -> w
  IN IF w1.thrown THEN w1 ELSE [w1 EXCEPT !.s.rec[k].hb = w.now]

\* The data handler initializeConnection registers on connection k.
serverData(w, k, data) ==
  IF ~w.s.rec[k].init /\ data.type # "init" /\ data.type # "disconnect"
  THEN w
  ELSE LET w1 ==
             CASE data.type = "init" -> onInit(w, k, data)
               [] data.type = "hb" -> respondTo(w, data, 200, BTrue)
               [] data.type = "post" -> onPost(w, data)
               [] data.type = "disconnect-req" ->
                    sendTo(w, [Msg("disconnect") EXCEPT !.body = "disconnect"])
               [] data.type = "disconnect" -> closeConnection(connClose(w, k))
               [] data.type = "var" -> onServerVar(w, data)
               [] OTHER -> w
       IN IF w1.thrown THEN w1 ELSE [w1 EXCEPT !.s.rec[k].hb = w.now]

\* server.getActiveVariable(name).set(value)
serverSetVar(w, value) ==
  LET res == ActiveVariableSet(w.s.active, value, ServerId, w.now, TRUE)
      w1 == [w EXCEPT !.s.active = res.var]
  IN IF res.onChange THEN serverOnVariableChange(w1, res.oldValue) ELSE w1

\* A lazy write on the server that broadcasts the value as an active one does.
serverSetLazyBroadcasting(w, value) ==
  LET res == LazyVariableSet(w.s.lazy, value, ServerId, w.now, TRUE)
      w1 == [w EXCEPT !.s.lazy = res.var, !.s.lazyHas = TRUE]
  IN IF res.onChange
     THEN sendToAll(w1, [Msg("var") EXCEPT !.name = LazyName,
                                           !.value = res.var.value])
     ELSE w1

\* server.getLazyVariable(name).set(value): Server.onVariableChange returns
\* at once for mode "lazy".
serverSetLazy(w, value) ==
  LET res == LazyVariableSet(w.s.lazy, value, ServerId, w.now, TRUE)
  IN [w EXCEPT !.s.lazy = res.var, !.s.lazyHas = TRUE]

\* server.getLazyVariable(name).get(): Server.onLazyVariableGet resolves with
\* getLocal().
serverGetLazy(w) ==
  [w EXCEPT !.s.lazyHas = TRUE, !.h.serverGot = Append(@, w.s.lazy.value)]

\* Server.sendSocket(connId, body): "*" goes to every registry entry, any
\* other connId to that peer.
sendSocket(w, connId, body) ==
  IF connId = "*"
  THEN sendToAll(w, [Msg("socket") EXCEPT !.body = body])
  ELSE sendTo(w, [Msg("socket") EXCEPT !.body = body])

(* ------------------------------ actions -------------------------------- *)
\* The state a handler leaves; tick is the connection whose heartbeat period
\* just elapsed, or 0.
Commit(w, tick) ==
  /\ client' = w.c
  /\ server' = w.s
  /\ net' = w.n
  /\ hist' = [w.h EXCEPT !.lastTick = tick]
  /\ UNCHANGED << lww, now >>

SessionStart(pw) ==
  /\ client = [peerOpen |-> FALSE, password |-> pw, initialized |-> FALSE,
                 sendQueue |-> << >>, heartbeatDelta |-> 0,
                 availableMessageIds |-> << >>, maxMessageId |-> 0,
                 timeoutIdLive |-> FALSE, timeouts |-> 0,
                 isConnectionDead |-> FALSE, messagePromises |-> << >>,
                 disconnectReason |-> "", conn |-> 0, hbInterval |-> {},
                 active |-> [has |-> FALSE, var |-> Variable(Null)],
                 lazy |-> [has |-> FALSE, var |-> Variable(Null)],
                 lazyNames |-> {}, listeners |-> TestListeners]
  /\ server = [conns |-> 0,
               rec |-> [k \in Conns |-> [known |-> FALSE, init |-> FALSE,
                                         hb |-> 0]],
               connectionCount |-> 0,
               active |-> Variable(Null), lazy |-> Variable(Null),
               lazyHas |-> FALSE]
  /\ net = [st |-> [k \in Conns |-> "none"],
            c2s |-> [k \in Conns |-> << >>],
            s2c |-> [k \in Conns |-> << >>]]
  /\ hist = [lastTick |-> 0, ticks |-> 0, clobbered |-> FALSE, queuedNew |-> << >>,
             pendingAtReconnect |-> << >>, reconnects |-> 0,
             disconnects |-> FALSE, inited |-> FALSE,
             flushed |-> << >>, flushExpected |-> << >>,
             flushConn |-> 0,
             hbOut |-> 0, hbMissed |-> FALSE, serverThrew |-> FALSE,
             posts |-> 0,
             req |-> [u \in PostUids |-> [path |-> "", body |-> Null]],
             results |-> [u \in PostUids |->
                            [done |-> FALSE, status |-> 0, body |-> Null,
                             ruid |-> 0]],
             cwrites |-> 0, swrites |-> 0,
             clientDisconnected |-> FALSE, serverDisconnected |-> FALSE,
             connectEvents |-> 0, disconnectEvents |-> 0,
             clientThrew |-> FALSE, received |-> << >>, sweeps |-> 0,
             serverVarEvents |-> 0, clw |-> 0, slw |-> 0, reads |-> 0,
             lazyGot |-> << >>, serverGot |-> << >>, lazyServed |-> << >>,
             clientConnectEvents |-> 0, responses |-> 0, resolves |-> 0,
             clientVarEvents |-> 0, handlerRuns |-> 0, pushes |-> 0]
  /\ now = 0

SessionInit == \E pw \in {Password, WrongPassword} : SessionStart(pw)

\* The environment starts a new exchange only while fewer than MaxInFlight
\* envelopes are on the wire.
RECURSIVE SumLen(_, _)
SumLen(f, S) ==
  IF S = {} THEN 0
  ELSE LET k == CHOOSE x \in S : TRUE IN Len(f[k]) + SumLen(f, S \ {k})
InFlight == SumLen(net.c2s, Conns) + SumLen(net.s2c, Conns)
Room == InFlight < MaxInFlight
WideRoom == InFlight < WideInFlight

\* The peer's "open" event: the constructor's handler calls reconnect() and
\* registers the internal handler with on("reconnect", ...).
PeerOpen ==
  /\ ~client.peerOpen
  /\ LET w == reconnect([World EXCEPT !.c.peerOpen = TRUE])
     IN Commit([w EXCEPT !.c.listeners = on(@, "reconnect", InternalHandler)],
               0)

\* The peer's "open" event when the connect attempt returns no channel.
PeerOpenAbsent ==
  /\ ~client.peerOpen
  /\ Commit(reconnectAbsent([World EXCEPT !.c.peerOpen = TRUE]), 0)

\* The server's "connection" event for connection k.
ServerConnection ==
  \E k \in Conns :
    /\ net.st[k] = "created"
    /\ Commit([World EXCEPT !.n.st[k] = "offered",
                            !.s.conns = k,
                            !.s.rec[k] = [known |-> TRUE, init |-> FALSE,
                                          hb |-> now]], 0)

\* The "open" event of the client's current connection.
ConnOpen ==
  \E k \in Conns :
    /\ net.st[k] = "offered"
    /\ client.conn = k
    /\ Commit(connOpen(World, k), 0)

\* client.post(path, body)
Post(maxPosts, room) ==
  \E path \in PostPaths, body \in PostBodies :
    /\ hist.posts < maxPosts
    /\ room
    /\ LET u == hist.posts + 1
           w == [World EXCEPT !.h.posts = u,
                              !.h.req[u] = [path |-> path, body |-> body]]
       IN Commit(send(w, [Msg("post") EXCEPT !.sub = path, !.body = body,
                                             !.uid = u]), 0)

UserPost == Post(MaxPosts, Room)
WidePost == Post(WidePosts, WideRoom)

\* A heartbeat period of connection k elapses.  A reconnect opens connection
\* conn + 1, which the model has only up to MaxConn.
HbPeriod(room) ==
  \E k \in client.hbInterval :
    /\ hist.ticks < MaxTicks
    /\ (client.heartbeatDelta < Strikes) => room
    /\ (client.heartbeatDelta >= Strikes /\ ~client.isConnectionDead)
         => client.conn < MaxConn
    /\ Commit(hbTick([World EXCEPT !.h.ticks = @ + 1], k), k)

HbTick == HbPeriod(Room)
\* Heartbeats that are sent while earlier ones are still on their way.
SlowHbTick == HbPeriod(InFlight < HbInFlight)

\* A connect-timeout watchdog fires: the one timeoutId names, or an older one.
WatchdogFire ==
  \E cur \in BOOLEAN :
    /\ IF cur THEN client.timeoutIdLive
       ELSE client.timeouts > (IF client.timeoutIdLive THEN 1 ELSE 0)
    /\ LET w == [World EXCEPT !.c.timeouts = @ - 1,
                              !.c.timeoutIdLive = @ /\ ~cur]
       IN Commit(watchdog(w), 0)

\* The client receives the next envelope on connection k.
ClientRecv ==
  \E k \in Conns :
    /\ net.st[k] = "open"
    /\ net.s2c[k] # << >>
    /\ Commit(clientData([World EXCEPT !.n.s2c[k] = Tail(@)], k,
                         Head(net.s2c[k])), 0)

\* The server receives the next envelope on connection k.
ServerRecv ==
  \E k \in Conns :
    /\ net.st[k] = "open"
    /\ server.rec[k].known
    /\ net.c2s[k] # << >>
    /\ Commit(serverData([World EXCEPT !.n.c2s[k] = Tail(@)], k,
                         Head(net.c2s[k])), 0)

\* The transport loses the open connection k.  (A connection lost before it
\* opens is one whose open event never comes.)
LinkFail ==
  \E k \in Conns :
    /\ net.st[k] = "open"
    /\ Commit(connClose(World, k), 0)

\* A client.disconnect() that leaves the session alive until the server's
\* disconnect envelope arrives.
ClientDisconnectWaiting ==
  /\ client.peerOpen
  /\ ~hist.clientDisconnected
  /\ Room
  /\ Commit(send([World EXCEPT !.h.clientDisconnected = TRUE],
                 [Msg("disconnect-req") EXCEPT !.body = BTrue]), 0)

\* client.disconnect()
ClientDisconnect ==
  /\ client.peerOpen
  /\ ~hist.clientDisconnected
  /\ Room
  /\ LET w == send([World EXCEPT !.h.clientDisconnected = TRUE],
                   [Msg("disconnect-req") EXCEPT !.body = BTrue])
     IN Commit([w EXCEPT !.c.isConnectionDead = TRUE], 0)

\* A server.disconnect() that deregisters the peer in the same step, without
\* waiting for its confirmation.
ServerDisconnectAtOnce ==
  /\ ~hist.serverDisconnected
  /\ server.conns # 0
  /\ net.st[server.conns] = "open"
  /\ Room
  /\ Commit(closeConnection(
              sendToAll([World EXCEPT !.h.serverDisconnected = TRUE],
                        [Msg("disconnect") EXCEPT !.body = BTrue])), 0)

\* server.disconnect(), called while it reaches a peer.
ServerDisconnect ==
  /\ ~hist.serverDisconnected
  /\ server.conns # 0
  /\ net.st[server.conns] = "open"
  /\ Room
  /\ Commit(sendToAll([World EXCEPT !.h.serverDisconnected = TRUE],
                      [Msg("disconnect") EXCEPT !.body = BTrue]), 0)

\* client.getActiveVariable(name).set(value)
ClientSetVar ==
  \E v \in Values :
    /\ client.peerOpen
    /\ hist.cwrites < MaxWrites
    /\ WideRoom
    /\ Commit(clientSetVar([World EXCEPT !.h.cwrites = @ + 1], v), 0)

\* server.getActiveVariable(name).set(value)
ServerSetVar ==
  \E v \in Values :
    /\ hist.swrites < MaxWrites
    /\ WideRoom
    /\ Commit(serverSetVar([World EXCEPT !.h.swrites = @ + 1], v), 0)

\* client.getLazyVariable(name).set(value)
ClientSetLazy ==
  \E v \in Values :
    /\ client.peerOpen
    /\ hist.clw < MaxWrites
    /\ WideRoom
    /\ Commit(clientSetLazy([World EXCEPT !.h.clw = @ + 1], v), 0)

\* server.getLazyVariable(name).set(value)
ServerSetLazy ==
  \E v \in Values :
    /\ hist.slw < MaxWrites
    /\ Commit(serverSetLazy([World EXCEPT !.h.slw = @ + 1], v), 0)

\* client.getLazyVariable(name).get()
ClientGetLazy ==
  /\ client.peerOpen
  /\ hist.reads < MaxReads
  /\ WideRoom
  /\ Commit(clientGetLazy([World EXCEPT !.h.reads = @ + 1]), 0)

\* server.getLazyVariable(name).get()
ServerGetLazy ==
  /\ hist.reads < MaxReads
  /\ Commit(serverGetLazy([World EXCEPT !.h.reads = @ + 1]), 0)

\* server.sendSocket("*", body), or to the registered peer.
ServerSendSocket ==
  \E all \in BOOLEAN :
    /\ hist.pushes < MaxPushes
    /\ ~all => server.conns # 0
    /\ Commit(sendSocket([World EXCEPT !.h.pushes = @ + 1],
                         IF all THEN "*" ELSE "peer", "s1"), 0)

\* The clock all peers read advances.
Tick ==
  /\ now < MaxClock
  /\ now' = now + 1
  /\ UNCHANGED << lww, client, server, net, hist >>

\* The clock of SpecSweep advances by one heartbeat period.
SweepTick ==
  /\ now < SweepClock
  /\ now' = now + 1
  /\ UNCHANGED << lww, client, server, net, hist >>

\* The server's sweep interval elapses.
Sweep ==
  /\ hist.sweeps < MaxSweeps
  /\ client' = client
  /\ LET w == trimHeartless([World EXCEPT !.h.sweeps = @ + 1])
     IN /\ server' = w.s
        /\ net' = w.n
        /\ hist' = [w.h EXCEPT !.lastTick = 0]
  /\ UNCHANGED << lww, now >>

Next ==
  \/ PeerOpen \/ ServerConnection \/ ConnOpen \/ UserPost \/ HbTick
  \/ WatchdogFire \/ ClientRecv \/ ServerRecv \/ LinkFail
  \/ ClientDisconnect \/ ServerDisconnect

Init == SessionInit /\ lww = LwwIdle

Spec == Init /\ [][Next]_vars

SyncNext ==
  \/ PeerOpen \/ ServerConnection \/ ConnOpen \/ ClientRecv \/ ServerRecv
  \/ ClientSetVar \/ ServerSetVar \/ Tick

SpecSync == Init /\ [][SyncNext]_vars

\* The session with writes and reads of the lazy variable.
LazyNext ==
  \/ PeerOpen \/ ServerConnection \/ ConnOpen \/ ClientRecv \/ ServerRecv
  \/ ClientSetLazy \/ ServerSetLazy \/ ClientGetLazy \/ ServerGetLazy \/ Tick

SpecLazy == Init /\ [][LazyNext]_vars

\* The session with a post and reads of the lazy variable.
ReadNext ==
  \/ PeerOpen \/ ServerConnection \/ ConnOpen \/ UserPost \/ ClientRecv
  \/ ServerRecv \/ ServerSetLazy \/ ClientGetLazy \/ ServerGetLazy

SpecRead == Init /\ [][ReadNext]_vars

\* The session with the server's own writes and socket pushes.
PushNext ==
  \/ PeerOpen \/ ServerConnection \/ ConnOpen \/ ClientRecv \/ ServerRecv
  \/ ClientSetVar \/ ServerSetVar \/ ServerSendSocket \/ Tick

SpecPush == Init /\ [][PushNext]_vars

\* The session on a slow link, with the server's sweep: heartbeats stay on
\* the wire of a connection the client has given up.
EvictNext ==
  \/ PeerOpen \/ ServerConnection \/ ConnOpen \/ SlowHbTick \/ ClientRecv
  \/ ServerRecv \/ SweepTick \/ Sweep

SpecEvict == Init /\ [][EvictNext]_vars

PostNext ==
  \/ PeerOpen \/ ServerConnection \/ ConnOpen \/ WidePost
  \/ ClientRecv \/ ServerRecv

SpecPost == Init /\ [][PostNext]_vars

\* The graceful disconnects on one connection.  Every envelope on the wire of
\* an open connection is eventually handled by the peer it is addressed to.
\* The session with two posts, heartbeats and link failures: a reconnect with
\* requests sent before and after it.
ResendNext ==
  \/ PeerOpen \/ ServerConnection \/ ConnOpen \/ WidePost \/ HbTick
  \/ ClientRecv \/ ServerRecv \/ LinkFail

SpecResend == Init /\ [][ResendNext]_vars

ByeNext == \/ PeerOpen \/ ServerConnection \/ ConnOpen \/ UserPost
           \/ ClientRecv \/ ServerRecv \/ ClientDisconnect \/ ServerDisconnect
SpecBye == /\ Init /\ [][ByeNext]_vars
           /\ WF_vars(ClientRecv) /\ WF_vars(ServerRecv)

AbsentNext == \/ PeerOpen \/ PeerOpenAbsent \/ ServerConnection \/ ConnOpen
              \/ WidePost \/ ClientRecv \/ ServerRecv
SpecAbsent == Init /\ [][AbsentNext]_vars

SweepNext == \/ PeerOpen \/ ServerConnection \/ ConnOpen \/ WidePost
             \/ ClientRecv \/ ServerRecv \/ SweepTick \/ Sweep
SpecSweep == Init /\ [][SweepNext]_vars

(* ------------------------- SpecVar: the replicas ----------------------- *)
VarInit ==
  \E kind \in {"active", "lazy"}, trigger \in BOOLEAN,
     w1 \in Writes, w2 \in Writes,
     v0 \in {Null} \cup Values, t0 \in Times, u0 \in Ids :
    /\ SessionStart(Password)
    /\ lww = [kind |-> kind, trigger |-> trigger,
              writes |-> << w1, w2 >>,
              rep |-> [r \in Replicas |->
                         [value |-> v0, lastUpdate |-> t0, lastUpdater |-> u0]],
              applied |-> [r \in Replicas |-> 0],
              ret |-> [r \in Replicas |-> FALSE],
              calls |-> [r \in Replicas |-> 0]]

\* Replica r calls set() with its next write.
ReplicaSet(r) ==
  /\ lww.applied[r] < 2
  /\ LET w == WriteOf(r, lww.applied[r] + 1)
         res == VariableSet(lww.kind, lww.rep[r], w.value, w.from, w.time,
                            lww.trigger)
     IN lww' = [lww EXCEPT !.rep[r] = res.var,
                           !.applied[r] = @ + 1,
                           !.ret[r] = res.ret,
                           !.calls[r] = @ + (IF res.onChange THEN 1 ELSE 0)]
  /\ UNCHANGED session

ReplicaASet == ReplicaSet("a")
ReplicaBSet == ReplicaSet("b")

VarNext == ReplicaASet \/ ReplicaBSet

SpecVar == VarInit /\ [][VarNext]_vars

\* The ordering rule as the specification states it.
Wins(w, v) ==
  \/ w.time > v.lastUpdate
  \/ (w.time = v.lastUpdate /\ StrLess(v.lastUpdater, w.from))

\* C1: a set(value, from, time) is applied (returns true and leaves value,
\* lastUpdate, lastUpdater equal to value, time, from) if and only if
\* time > lastUpdate, or time = lastUpdate and from > lastUpdater, from every
\* state of the variable.
C1_WriteOrdering ==
  [][\A r \in Replicas :
       lww'.applied[r] = lww.applied[r] + 1 =>
         LET w == WriteOf(r, lww.applied[r] + 1) IN
           /\ lww'.ret[r] <=> Wins(w, lww.rep[r])
           /\ lww'.ret[r] =>
                lww'.rep[r] = [value |-> w.value, lastUpdate |-> w.time,
                               lastUpdater |-> w.from]]_vars

\* A write has won from the initial state lastUpdate = 0, lastUpdater = "" at
\* time 0 on the updater tie-break alone.
C1_Witness ==
  /\ lww.applied["a"] = 1
  /\ lww.ret["a"]
  /\ lww.writes[1].time = 0
  /\ lww.rep["a"].lastUpdater # EmptyStr
  /\ lww.rep["a"].lastUpdate = 0

\* C2: a set that loses the ordering check changes nothing (value, lastUpdate
\* and lastUpdater stay, onChange is not invoked) and returns false.
C2_LosingSetIsNoOp ==
  [][\A r \in Replicas :
       (/\ lww'.applied[r] = lww.applied[r] + 1
        /\ ~Wins(WriteOf(r, lww.applied[r] + 1), lww.rep[r])) =>
         /\ lww'.rep[r] = lww.rep[r]
         /\ lww'.calls[r] = lww.calls[r]
         /\ lww'.ret[r] = FALSE]_vars

\* A losing write that carried a different value and asked for the callback.
C2_Witness ==
  /\ lww.applied["a"] = 2
  /\ lww.trigger
  /\ ~lww.ret["a"]
  /\ lww.writes[2].value # lww.rep["a"].value
  /\ lww.calls["a"] = 1

\* C3: two writes applied in either order leave two replicas that started in
\* the same state with the same value, lastUpdate and lastUpdater.
C3_Convergence ==
  (lww.applied["a"] = 2 /\ lww.applied["b"] = 2) =>
    lww.rep["a"] = lww.rep["b"]

(* --------------------------- claims C4 - C10 --------------------------- *)
\* Nothing is on the wire, the client is authenticated on its open current
\* connection and has no request outstanding.
Quiescent ==
  /\ \A k \in Conns : net.c2s[k] = << >> /\ net.s2c[k] = << >>
  /\ client.conn # 0
  /\ net.st[client.conn] = "open"
  /\ server.conns = client.conn
  /\ server.rec[client.conn].init
  /\ hist.inited
  /\ client.initialized
  /\ ~client.isConnectionDead
  /\ client.messagePromises = << >>
  /\ client.active.has

\* C4: once writes have stopped and every envelope in flight has been
\* delivered, the authenticated client holds the same value of the active
\* variable as the server.
C4_EventualConsistency ==
  Quiescent => client.active.var.value = server.active.value

\* C5: the id getNextAvailableId returns is never the key of a pending
\* request, so no send() has ever registered a request over a pending one.
C5_IdReuseSafety ==
  /\ ~HasKey(client.messagePromises, getNextAvailableId(client).id)
  /\ \A i \in DOMAIN client.availableMessageIds :
       ~HasKey(client.messagePromises, client.availableMessageIds[i])
  /\ ~hist.clobbered

\* A heartbeat is pending under id 0, the id that init and then an answered
\* post held before it, while a second request is pending under another id.
C5_Witness ==
  /\ \E i \in DOMAIN client.messagePromises :
       /\ client.messagePromises[i].id = 0
       /\ client.messagePromises[i].data.type = "hb"
  /\ hist.results[1].done
  /\ Len(client.messagePromises) >= 2

CountIn(q, m) == Cardinality({i \in DOMAIN q : q[i] = m})
SameBag(p, q) ==
  \A m \in {p[i] : i \in DOMAIN p} \cup {q[i] : i \in DOMAIN q} :
    CountIn(p, m) = CountIn(q, m)

\* C6: on the connection opened after a reconnect, the requests transmitted
\* from the queue are exactly the non-heartbeat requests that were pending at
\* the reconnect, once each (besides the requests first queued since), and no
\* heartbeat is among them.
C6_ResendExact ==
  hist.flushConn >= 2 =>
    /\ SameBag(hist.flushed, hist.flushExpected)
    /\ \A i \in DOMAIN hist.flushed : hist.flushed[i].type # "hb"

\* C7: a heartbeat period that finds heartbeatDelta at 3 stops that timer and
\* clears initialized; unless the session is dead it fires the reconnect
\* event, and the client opens its next connection.
C7_ThreeStrikesDetected ==
  [][(hist'.lastTick # 0 /\ client.heartbeatDelta >= Strikes) =>
       /\ hist'.lastTick \notin client'.hbInterval
       /\ ~client'.initialized
       /\ IF client.isConnectionDead
          THEN /\ hist'.reconnects = hist.reconnects
               /\ client'.conn = client.conn
          ELSE /\ hist'.reconnects = hist.reconnects + 1
               /\ client'.conn = client.conn + 1
               /\ net'.st[client'.conn] = "created"]_vars

\* The period that found three unanswered heartbeats has just elapsed and the
\* second connection is being attempted.
C7_Witness ==
  /\ hist.lastTick = 1
  /\ hist.reconnects = 1
  /\ client.conn = 2
  /\ net.st[2] = "created"
  /\ client.hbInterval = {}

\* C8: as long as no heartbeat period has elapsed with an earlier heartbeat
\* still unanswered, the reconnect event has not fired and the session has not
\* been declared dead for a timeout.
C8_NoFalsePositive ==
  ~hist.hbMissed =>
    /\ hist.reconnects = 0
    /\ client.disconnectReason # "timeout"
    /\ client.heartbeatDelta <= 1

\* Every one of MaxTicks heartbeat periods found the previous heartbeat
\* answered.
C8_Witness ==
  /\ ~hist.hbMissed
  /\ hist.ticks = MaxTicks
  /\ hist.hbOut = 0
  /\ hist.reconnects = 0

\* C9: the future of a post to a path without handler resolves with status
\* 404, and neither side is dead or has thrown.
C9_UnroutedPostIs404 ==
  \A u \in PostUids :
    (hist.results[u].done /\ hist.req[u].path = "echo") =>
      /\ hist.results[u].status = 404
      /\ ~hist.serverThrew
      /\ ~client.isConnectionDead

\* C10: the future of a post to the path whose handler replies res.send(x)
\* resolves with status 200 and body x.
C10_PostResolvesWithReply ==
  \A u \in PostUids :
    (hist.results[u].done /\ hist.req[u].path = "test") =>
      /\ hist.results[u].status = 200
      /\ hist.results[u].body = hist.req[u].body

(* --------------------------- claims C11 - C20 -------------------------- *)
\* The registered connection is older than the sweep tolerates.
Heartless ==
  server.conns # 0 /\ server.rec[server.conns].hb < now - TrimPeriods

\* C11: a run of the sweep closes and deregisters the registered connection
\* whose last heartbeat is older than 3 heartbeat periods, lowers the
\* connections count by exactly one and fires the disconnect event exactly
\* once; a connection with a newer heartbeat stays registered and untouched.
C11_SweepEvictsHeartless ==
  [][hist'.sweeps # hist.sweeps =>
       IF Heartless
       THEN /\ server'.conns = 0
            /\ net'.st[server.conns] = "down"
            /\ server'.connectionCount = server.connectionCount - 1
            /\ hist'.disconnectEvents = hist.disconnectEvents + 1
       ELSE /\ server' = server
            /\ net' = net
            /\ hist'.disconnectEvents = hist.disconnectEvents]_vars

\* After two runs of the sweep the connection of the authenticated client has
\* been evicted: closed, deregistered, counted down, one disconnect event.
C11_Witness ==
  /\ hist.sweeps = 2
  /\ hist.connectEvents = 1
  /\ hist.disconnectEvents = 1
  /\ server.conns = 0
  /\ server.connectionCount = 0
  /\ net.st[1] = "down"

\* The step is the server's data handler taking the head of c2s[k].
ServerTakes(k) ==
  /\ net.c2s[k] # << >>
  /\ net'.c2s[k] = Tail(net.c2s[k])
  /\ net'.st[k] = net.st[k]
  /\ client' = client

\* C12: an envelope other than init or disconnect that arrives on a
\* connection whose init has not succeeded changes nothing on the server
\* (variables, registry, connections count, heartbeat times), runs no post
\* handler, fires no event and sends nothing back.
C12_AuthGate ==
  [][\A k \in Conns :
       (/\ ServerTakes(k)
        /\ ~server.rec[k].init
        /\ Head(net.c2s[k]).type \notin {"init", "disconnect"}) =>
         /\ server' = server
         /\ net'.s2c = net.s2c
         /\ net'.st = net.st
         /\ hist'.received = hist.received
         /\ hist'.connectEvents = hist.connectEvents
         /\ hist'.disconnectEvents = hist.disconnectEvents
         /\ ~hist'.serverThrew]_vars

\* The server has taken a post from a client whose init it refused: the post
\* is still pending, nothing of it is on the wire, the server has processed
\* no post, and the clock has passed that connection's heartbeat stamp.
C12_Witness ==
  /\ client.password = WrongPassword
  /\ hist.posts = 1
  /\ hist.received = << >>
  /\ net.st[1] = "open"
  /\ net.c2s[1] = << >>
  /\ \E i \in DOMAIN client.messagePromises :
       client.messagePromises[i].data.type = "post"
  /\ client.sendQueue = << >>
  /\ ~server.rec[1].init
  /\ server.rec[1].hb < now

\* The disconnect notice the server sends for a refused credential.
PasswordNotice == [Msg("disconnect") EXCEPT !.body = "password"]

\* C13: on an init whose credential differs from the server's password the
\* server sends disconnect("password") to that peer and nothing else; the
\* connection is not marked authenticated, no response is sent, the connect
\* event does not fire and the connections count does not change.
C13_WrongCredentialRefused ==
  [][\A k \in Conns :
       (/\ ServerTakes(k)
        /\ Head(net.c2s[k]).type = "init"
        /\ Head(net.c2s[k]).body # Password) =>
         /\ ~server'.rec[k].init
         /\ server'.connectionCount = server.connectionCount
         /\ hist'.connectEvents = hist.connectEvents
         /\ server.conns # 0
         /\ ~hist'.serverThrew
         /\ \A j \in Conns :
              net'.s2c[j] =
                IF j = server.conns /\ net.st[j] = "open"
                THEN Append(net.s2c[j], PasswordNotice)
                ELSE net.s2c[j]]_vars

\* The server has refused the init of a client with a wrong password: the
\* notice is on the wire, the client is not authenticated and not counted.
C13_Witness ==
  /\ client.password = WrongPassword
  /\ net.s2c[1] = << PasswordNotice >>
  /\ net.c2s[1] = << >>
  /\ ~server.rec[1].init
  /\ server.connectionCount = 0
  /\ hist.connectEvents = 0
  /\ ~hist.inited

\* C14: a post made while the session is marked dead is rejected at once, so
\* it leaves no request of that post pending.
C14_DeadSendRejected ==
  [][(client.isConnectionDead /\ hist'.posts # hist.posts) =>
       \A i \in DOMAIN client'.messagePromises :
         client'.messagePromises[i].data.uid # hist'.posts]_vars

\* C15: when the connect attempt returns no channel the session is dead with
\* reason "server does not exist", the disconnect listeners have been invoked
\* and no exception has left the client's handler.
C15_AbsentServerIsAnEvent ==
  client.disconnectReason = "server does not exist" =>
    /\ client.isConnectionDead
    /\ hist.disconnects
    /\ ~hist.clientThrew

\* The step is a watchdog callback running.
WatchdogRuns ==
  client'.timeouts < client.timeouts /\ net'.s2c = net.s2c

\* The step is the client's data handler taking the head of s2c[k].
ClientTakes(k) ==
  /\ net.s2c[k] # << >>
  /\ net'.s2c[k] = Tail(net.s2c[k])
  /\ net'.st = net.st
  /\ server' = server

ServerNotice == [Msg("disconnect") EXCEPT !.body = BTrue]

\* The step is the server's data handler taking a disconnect confirmation.
TakesConfirmation(k) ==
  /\ net.st[k] = "open"
  /\ net.c2s[k] # << >>
  /\ Head(net.c2s[k]).type = "disconnect"
  /\ client' = client
  /\ net'.st[k] = "down"

\* C17: Server.disconnect() sends the notice to the registered peer and
\* leaves the registry as it is; the server deregisters the peer only in the
\* step that handles that peer's disconnect confirmation, and it does so once;
\* and once the notice is sent, the registry eventually becomes empty.
C17_TwoPhaseServerDisconnect ==
  /\ [][/\ (hist'.serverDisconnected /\ ~hist.serverDisconnected) =>
             /\ server' = server
             /\ net'.s2c[server.conns] =
                  Append(net.s2c[server.conns], ServerNotice)
        /\ (server.conns # 0 /\ server'.conns = 0) =>
             /\ \E k \in Conns : TakesConfirmation(k)
             /\ hist'.disconnectEvents = hist.disconnectEvents + 1
        /\ hist'.disconnectEvents <= 1]_vars
  /\ (hist.serverDisconnected ~> server.conns = 0)

\* Server.disconnect() was called for an authenticated client, whose
\* confirmation the server has handled: the registry is empty, the peer was
\* deregistered once.
C17_Witness ==
  /\ hist.serverDisconnected
  /\ ~hist.clientDisconnected
  /\ hist.connectEvents = 1
  /\ hist.disconnectEvents = 1
  /\ server.conns = 0
  /\ client.isConnectionDead
  /\ client.disconnectReason = BTrue

\* The envelope the server answers a disconnect-req with.
ByeNotice == [Msg("disconnect") EXCEPT !.body = "disconnect"]

\* A disconnect-req of the client is on the wire of connection k.
ReqOnWire(k) ==
  \E i \in DOMAIN net.c2s[k] : net.c2s[k][i].type = "disconnect-req"

\* C18: Client.disconnect() marks the session dead in the step that hands
\* disconnect-req to send() (transmitted at once on an open connection),
\* with no confirmation awaited and the server untouched; the server answers
\* the request of an authenticated peer with disconnect("disconnect") and
\* keeps the peer registered; the client taking that envelope sets its
\* reason to "disconnect", fires its disconnect listeners and confirms; the
\* server taking the confirmation deregisters the peer; and a request on the
\* wire of a client with the right credential leads to the peer being
\* deregistered, with the listeners fired and, unless Server.disconnect()
\* ran as well, the reason "disconnect".
C18_ClientDisconnect ==
  /\ [][/\ (hist'.clientDisconnected /\ ~hist.clientDisconnected) =>
             /\ client'.isConnectionDead
             /\ server' = server
             /\ net'.s2c = net.s2c
             /\ hist'.disconnects = hist.disconnects
             /\ \E i \in DOMAIN client'.messagePromises :
                  client'.messagePromises[i].data.type = "disconnect-req"
             /\ (client.initialized /\ net.st[client.conn] = "open") =>
                  /\ Len(net'.c2s[client.conn]) =
                       Len(net.c2s[client.conn]) + 1
                  /\ net'.c2s[client.conn][Len(net'.c2s[client.conn])].type
                       = "disconnect-req"
        /\ \A k \in Conns :
             (/\ ServerTakes(k)
              /\ Head(net.c2s[k]).type = "disconnect-req"
              /\ server.rec[k].init) =>
               /\ net'.s2c[k] = Append(net.s2c[k], ByeNotice)
               /\ server'.conns = server.conns
        /\ \A k \in Conns :
             (ClientTakes(k) /\ Head(net.s2c[k]) = ByeNotice) =>
               /\ client'.disconnectReason = "disconnect"
               /\ hist'.disconnects
               /\ Len(net'.c2s[k]) > Len(net.c2s[k])
               /\ net'.c2s[k][Len(net'.c2s[k])].type = "disconnect"
        /\ \A k \in Conns :
             (TakesConfirmation(k) /\ server.conns = k) =>
               server'.conns = 0]_vars
  /\ ((client.password = Password /\ \E k \in Conns : ReqOnWire(k))
        ~> (/\ server.conns = 0
            /\ hist.disconnects
            /\ (~hist.serverDisconnected =>
                  client.disconnectReason = "disconnect")))

\* client.disconnect() was called on the authenticated connection and both
\* envelopes it caused were delivered: the peer is deregistered, the reason
\* is "disconnect" and the listeners have fired.
C18_Witness ==
  /\ hist.clientDisconnected
  /\ ~hist.serverDisconnected
  /\ hist.connectEvents = 1
  /\ hist.disconnectEvents = 1
  /\ server.conns = 0
  /\ client.isConnectionDead
  /\ client.disconnectReason = "disconnect"
  /\ hist.disconnects

\* The post with history number u was pending when the reconnect event fired.
PendingAtReconnect(u) ==
  \E m \in DOMAIN hist.pendingAtReconnect :
    /\ hist.pendingAtReconnect[m].type = "post"
    /\ hist.pendingAtReconnect[m].uid = u

\* C19: on the connection opened after a reconnect the queue transmitted ends
\* with the requests that were pending at the reconnect, in the order they
\* were first sent, followed by the requests sent since; and the server
\* receives the client's posts in the order they were issued, a post arriving
\* after a later one only as the retransmission of a pending request.
C19_ResendKeepsIssueOrder ==
  /\ hist.flushConn >= 2 =>
       /\ Len(hist.flushed) >= Len(hist.flushExpected)
       /\ SubSeq(hist.flushed,
                 Len(hist.flushed) - Len(hist.flushExpected) + 1,
                 Len(hist.flushed)) = hist.flushExpected
  /\ \A i, j \in DOMAIN hist.received :
       (i < j /\ hist.received[j] < hist.received[i]) =>
         PendingAtReconnect(hist.received[j])

\* C20: the open handler of a live session transmits init first on the new
\* connection, then the queued envelopes in queue order, and leaves the queue
\* empty, so that no later open transmits them again.
C20_FlushEmptiesQueue ==
  [][\A k \in Conns :
       (/\ hist'.flushConn # hist.flushConn
        /\ hist'.flushConn = k
        /\ ~client.isConnectionDead) =>
         /\ net'.c2s[k] # << >>
         /\ Head(net'.c2s[k]).type = "init"
         /\ Tail(net'.c2s[k]) = client.sendQueue
         /\ client'.sendQueue = << >>]_vars

(* --------------------------- claims C21 - C30 -------------------------- *)
\* C21: a post the server has already processed is not processed again when
\* it is retransmitted: taking it a second time runs no post handling and
\* sends no response.
C21_ProcessedAtMostOnce ==
  [][\A k \in Conns :
       (/\ ServerTakes(k)
        /\ Head(net.c2s[k]).type = "post"
        /\ server.rec[k].init
        /\ SeqHas(hist.received, Head(net.c2s[k]).uid)) =>
         /\ hist'.received = hist.received
         /\ net'.s2c = net.s2c]_vars

\* C22: a pending request that is not a heartbeat leaves messagePromises only
\* in the step that takes a response carrying its id; the reconnect event
\* removes the heartbeat entries and leaves every other entry in place.
C22_NeverSilentlyDropped ==
  [][/\ \A i \in DOMAIN client.messagePromises :
          (/\ client.messagePromises[i].data.type # "hb"
           /\ ~SeqHas(client'.messagePromises, client.messagePromises[i])) =>
            \E k \in Conns :
              /\ ClientTakes(k)
              /\ Head(net.s2c[k]).type = "response"
              /\ Head(net.s2c[k]).id = client.messagePromises[i].id
     /\ (hist'.reconnects # hist.reconnects) =>
          /\ \A j \in DOMAIN client'.messagePromises :
               client'.messagePromises[j].data.type # "hb"
          /\ SelectSeq(client'.messagePromises,
                       LAMBDA e : e.data.type # "hb")
               = SelectSeq(client.messagePromises,
                           LAMBDA e : e.data.type # "hb")]_vars

\* After a reconnect event that found heartbeats and a post pending, the post
\* is still pending and no heartbeat entry is left.
C22_Witness ==
  /\ hist.reconnects = 1
  /\ hist.hbMissed
  /\ \E i \in DOMAIN client.messagePromises :
       /\ client.messagePromises[i].data.type = "post"
       /\ ~hist.results[client.messagePromises[i].data.uid].done
  /\ \A i \in DOMAIN client.messagePromises :
       client.messagePromises[i].data.type # "hb"

\* The var envelope the server broadcasts for the value v.
VarNotice(v) == [Msg("var") EXCEPT !.name = VarName, !.value = v]

\* The server's variable listeners ran once in this step if the value of the
\* active variable changed, and not at all if it did not.
ListenersIffChanged ==
  hist'.serverVarEvents =
    hist.serverVarEvents +
      (IF server'.active.value # server.active.value THEN 1 ELSE 0)

\* The step is the server taking a var/set for the active variable from the
\* authenticated connection k.
TakesActiveSet(k) ==
  /\ ServerTakes(k)
  /\ server.rec[k].init
  /\ Head(net.c2s[k]).type = "var"
  /\ Head(net.c2s[k]).action = "set"
  /\ Head(net.c2s[k]).mode = "active"

\* C23: a write to the active variable that wins on the server, made locally
\* or received as a var/set, sends a var envelope with the new value to the
\* registered connection, and runs the server's variable listeners if and
\* only if the new value differs from the value before the write.
C23_WinningWriteBroadcasts ==
  [][/\ (/\ hist'.swrites # hist.swrites
         /\ SetGuard(server.active, ServerId, now)) =>
          /\ ListenersIffChanged
          /\ (server.conns # 0 /\ net.st[server.conns] = "open") =>
               net'.s2c[server.conns] =
                 Append(net.s2c[server.conns],
                        VarNotice(server'.active.value))
     /\ \A k \in Conns :
          (/\ TakesActiveSet(k)
           /\ SetGuard(server.active, Head(net.c2s[k]).from,
                       Head(net.c2s[k]).time)) =>
            /\ server'.active.value = Head(net.c2s[k]).value
            /\ ListenersIffChanged
            /\ Len(net'.s2c[k]) = Len(net.s2c[k]) + 2
            /\ net'.s2c[k][Len(net.s2c[k]) + 1] =
                 VarNotice(Head(net.c2s[k]).value)]_vars

\* A client's write won on the server with the value the server already
\* held: the var envelope was sent and the listeners ran for the server's
\* own write only.  (A local write of the server always wins, so the
\* client's write is the later one, and a write that changed the value
\* would have run the listeners a second time.)
C23_Witness ==
  /\ hist.swrites = 1
  /\ hist.cwrites = 1
  /\ server.active.lastUpdater = ClientId
  /\ hist.serverVarEvents = 1
  /\ \E k \in Conns : \E i \in DOMAIN net.s2c[k] :
       net.s2c[k][i] = VarNotice(server.active.value)

\* C24: a var/set for the active variable that loses the last-write-wins
\* check on the server, or that carries the value the server already holds,
\* is still followed by a var envelope with the server's current value to
\* the registered connection.
C24_LosingWriteStillBroadcast ==
  [][\A k \in Conns :
       (/\ TakesActiveSet(k)
        /\ \/ ~SetGuard(server.active, Head(net.c2s[k]).from,
                        Head(net.c2s[k]).time)
           \/ Head(net.c2s[k]).value = server.active.value) =>
         \E i \in DOMAIN net'.s2c[k] :
           /\ i > Len(net.s2c[k])
           /\ net'.s2c[k][i] = VarNotice(server'.active.value)]_vars

\* The variable v after a set() stamped (from, time) with the value val,
\* under the last-write-wins rule.
LwwAfter(v, val, from, time) ==
  IF SetGuard(v, from, time)
  THEN [value |-> val, lastUpdate |-> time, lastUpdater |-> from]
  ELSE v

\* The step is the server taking a var/set for the lazy variable from the
\* authenticated connection k.
TakesLazySet(k) ==
  /\ ServerTakes(k)
  /\ server.rec[k].init
  /\ Head(net.c2s[k]).type = "var"
  /\ Head(net.c2s[k]).action = "set"
  /\ Head(net.c2s[k]).mode = "lazy"

TakesLazyRead(k) ==
  /\ ServerTakes(k)
  /\ server.rec[k].init
  /\ Head(net.c2s[k]).type = "var"
  /\ Head(net.c2s[k]).action # "set"
  /\ Head(net.c2s[k]).mode = "lazy"

\* C26: get() of the lazy variable on the server resolves with the server's
\* copy and sends nothing; on the client it hands one var read request to
\* send(), the server answers it with the value of its copy at that moment,
\* and every get() of the client resolves with the value the server held
\* when it processed that request.
C26_LazyGet ==
  /\ [][/\ (hist'.serverGot # hist.serverGot) =>
             /\ net' = net
             /\ hist'.serverGot = Append(hist.serverGot, server.lazy.value)
        /\ (hist'.reads # hist.reads /\ hist'.serverGot = hist.serverGot) =>
             /\ Len(client'.messagePromises) =
                  Len(client.messagePromises) + 1
             /\ LET e == client'.messagePromises[
                           Len(client'.messagePromises)].data
                IN e.type = "var" /\ e.mode = "lazy" /\ e.action # "set"
             /\ net'.s2c = net.s2c
        /\ \A k \in Conns :
             TakesLazyRead(k) =>
               /\ Len(net'.s2c[k]) = Len(net.s2c[k]) + 1
               /\ net'.s2c[k][Len(net'.s2c[k])].type = "response"
               /\ net'.s2c[k][Len(net'.s2c[k])].id = Head(net.c2s[k]).id
               /\ net'.s2c[k][Len(net'.s2c[k])].body = server.lazy.value]_vars
  /\ [](/\ Len(hist.lazyGot) <= Len(hist.lazyServed)
        /\ \A i \in DOMAIN hist.lazyGot :
             hist.lazyGot[i] = hist.lazyServed[i])

\* The number of init requests among the pending requests.
PendingInits(c) ==
  Cardinality({i \in DOMAIN c.messagePromises :
                 c.messagePromises[i].data.type = "init"})

\* C27: a session that is marked dead stays as it is: no step of a dead
\* session hands an init to send(), starts a heartbeat timer, fires the
\* connect event or opens a new connection, the late open event of an
\* earlier connection attempt included.
C27_DeadIsTerminal ==
  [][client.isConnectionDead =>
       /\ PendingInits(client') <= PendingInits(client)
       /\ client'.hbInterval \subseteq client.hbInterval
       /\ hist'.clientConnectEvents = hist.clientConnectEvents
       /\ client'.conn = client.conn]_vars

\* The names of the server's lazy variables.
ServerLazyNames == IF server.lazyHas THEN {LazyName} ELSE {}

\* C28: the response to a successful init carries the value of the server's
\* active variable and exactly the names of the server's lazy variables, and
\* the client that takes it holds the active variable with that value and a
\* lazy variable for each name of the list.
C28_InitSnapshot ==
  [][\A k \in Conns :
       /\ (/\ ServerTakes(k)
           /\ Head(net.c2s[k]).type = "init"
           /\ Head(net.c2s[k]).body = Password) =>
            /\ net'.s2c[k] # << >>
            /\ LET r == net'.s2c[k][Len(net'.s2c[k])]
               IN /\ r.type = "response"
                  /\ r.vars
                  /\ r.value = server.active.value
                  /\ r.lazy = ServerLazyNames
       /\ (/\ ClientTakes(k)
           /\ Head(net.s2c[k]).vars
           /\ hist'.inited /\ ~hist.inited) =>
            /\ client'.active.has
            /\ client'.active.var.value = Head(net.s2c[k]).value
            /\ Head(net.s2c[k]).lazy \subseteq client'.lazyNames]_vars

\* C29: the step that takes a response releases its id into the pool; if a
\* request is pending under that id it is resolved once, with the response's
\* status and body, and deleted in the same step, and otherwise nothing is
\* resolved; a post that has been resolved is not resolved again.
C29_ResolveOnceAndRelease ==
  [][/\ \A k \in Conns :
          (ClientTakes(k) /\ Head(net.s2c[k]).type = "response") =>
            LET r == Head(net.s2c[k])
            IN /\ SeqHas(client'.availableMessageIds, r.id)
               /\ ~HasKey(client'.messagePromises, r.id)
               /\ Len(client'.messagePromises) =
                    Len(client.messagePromises)
                      - (IF HasKey(client.messagePromises, r.id)
                         THEN 1 ELSE 0)
               /\ hist'.resolves =
                    hist.resolves
                      + (IF HasKey(client.messagePromises, r.id)
                         THEN 1 ELSE 0)
               /\ (/\ HasKey(client.messagePromises, r.id)
                   /\ MapGet(client.messagePromises, r.id).type = "post") =>
                    LET u == MapGet(client.messagePromises, r.id).uid
                    IN /\ ~hist.results[u].done
                       /\ hist'.results[u].done
                       /\ hist'.results[u].status = r.status
                       /\ hist'.results[u].body = r.body
     /\ \A u \in PostUids :
          hist.results[u].done => hist'.results[u] = hist.results[u]
     /\ hist'.resolves # hist.resolves =>
          \E k \in Conns :
            ClientTakes(k) /\ Head(net.s2c[k]).type = "response"]_vars

\* A duplicate response arrived after its request had been resolved and its
\* id had gone back to the pool: the post is resolved, more responses were
\* taken than requests resolved, and nothing is pending.
C29_Witness ==
  /\ hist.results[1].done
  /\ hist.responses > hist.resolves
  /\ hist.resolves >= 2
  /\ client.messagePromises = << >>
  /\ client.availableMessageIds # << >>

\* The ids of the pool, as a set.
PoolIds(c) == {c.availableMessageIds[i] : i \in DOMAIN c.availableMessageIds}

\* C30: in every reachable state getNextAvailableId returns a member of the
\* pool and removes it when the pool is not empty, and returns maxMessageId
\* and increments it otherwise; every id of the pool is below maxMessageId,
\* is in the pool once and is not the key of a pending request.
C30_IdPoolDiscipline ==
  /\ LET a == getNextAvailableId(client)
     IN IF client.availableMessageIds # << >>
        THEN /\ a.id \in PoolIds(client)
             /\ PoolIds(a.c) = PoolIds(client) \ {a.id}
             /\ a.c.maxMessageId = client.maxMessageId
        ELSE /\ a.id = client.maxMessageId
             /\ a.c.maxMessageId = client.maxMessageId + 1
             /\ a.c.availableMessageIds = << >>
  /\ \A i \in DOMAIN client.availableMessageIds :
       /\ client.availableMessageIds[i] >= 0
       /\ client.availableMessageIds[i] < client.maxMessageId
       /\ ~HasKey(client.messagePromises, client.availableMessageIds[i])
       /\ \A j \in DOMAIN client.availableMessageIds :
            client.availableMessageIds[i] = client.availableMessageIds[j]
              => i = j

\* Two ids are in the pool while a request is pending under a third.
C30_Witness ==
  /\ Len(client.availableMessageIds) >= 2
  /\ client.messagePromises # << >>
  /\ client.maxMessageId >= 3

(* --------------------------- claims C31 - C39 -------------------------- *)
\* The step is the client taking a var envelope on connection k.
TakesVarNotice(k) ==
  /\ ClientTakes(k)
  /\ Head(net.s2c[k]).type = "var"

\* The set() call the client's var case makes for the envelope m is rejected:
\* from and time default to the client's id and clock when m carries none.
NoticeRejected(m) ==
  ~SetGuard(clientActive(client),
            IF m.stamped THEN m.from ELSE ClientId,
            IF m.stamped THEN m.time ELSE now)

\* C31: a write that set() rejects runs no variable listener on the peer
\* that made or received it: not a local write of the client or the server,
\* not a var/set the server takes, and not a var envelope the client takes,
\* even when its value differs from the client's.
C31_RejectedWriteIsSilent ==
  [][/\ (hist'.cwrites # hist.cwrites
           /\ ~SetGuard(clientActive(client), ClientId, now)) =>
          hist'.clientVarEvents = hist.clientVarEvents
     /\ (hist'.swrites # hist.swrites
           /\ ~SetGuard(server.active, ServerId, now)) =>
          hist'.serverVarEvents = hist.serverVarEvents
     /\ \A k \in Conns :
          /\ (/\ TakesActiveSet(k)
              /\ ~SetGuard(server.active, Head(net.c2s[k]).from,
                           Head(net.c2s[k]).time)) =>
               hist'.serverVarEvents = hist.serverVarEvents
          /\ (TakesVarNotice(k) /\ NoticeRejected(Head(net.s2c[k]))) =>
               /\ hist'.clientVarEvents = hist.clientVarEvents
               /\ client'.active.var = clientActive(client)]_vars

\* The step is the server taking a post or var request from the
\* authenticated connection k.
TakesRequest(k) ==
  /\ ServerTakes(k)
  /\ server.rec[k].init
  /\ Head(net.c2s[k]).type \in {"post", "var"}

\* The positions of the responses the server sent on connection k in this
\* step.
NewResponses(k) ==
  {i \in DOMAIN net'.s2c[k] :
     i > Len(net.s2c[k]) /\ net'.s2c[k][i].type = "response"}

\* C32: for every post or var request the server takes from an authenticated
\* connection it sends exactly one response, which carries the request's id:
\* status 404 for a path without handler, and status 200 with the handler's
\* reply for the path whose handler calls res.send once.
C32_ExactlyOneResponse ==
  [][\A k \in Conns :
       (TakesRequest(k) /\ server.conns = k) =>
         /\ Cardinality(NewResponses(k)) = 1
         /\ \A i \in NewResponses(k) :
              LET r == net'.s2c[k][i]
                  m == Head(net.c2s[k])
              IN /\ r.id = m.id
                 /\ (m.type = "post" /\ m.sub = "echo") => r.status = 404
                 /\ (m.type = "post" /\ m.sub = "test") =>
                      r.status = 200 /\ r.body = m.body]_vars

\* C33: a pending request is fulfilled only by a response the server produced
\* for that request: every post that has been resolved was resolved by the
\* response to that post, also when its id was held by an earlier request
\* whose duplicate or late response is still on its way.
C33_ResponseCorrelation ==
  \A u \in PostUids :
    hist.results[u].done => hist.results[u].ruid = u

\* The number of registry entries whose init has succeeded.
AuthenticatedEntries ==
  IF server.conns # 0 /\ server.rec[server.conns].init THEN 1 ELSE 0

\* C34: the connections count equals the number of registry entries whose
\* init succeeded and is never negative, and the connect event has fired at
\* most once for each connection the server has accepted.
C34_ConnectionsCount ==
  /\ server.connectionCount = AuthenticatedEntries
  /\ server.connectionCount >= 0
  /\ hist.connectEvents <= Cardinality({k \in Conns : server.rec[k].known})

\* The number of pending requests registered under id.
PendingUnder(c, id) ==
  Cardinality({i \in DOMAIN c.messagePromises : c.messagePromises[i].id = id})

\* C35: every id below maxMessageId is in the pool or is the key of exactly
\* one pending request, and not both.
C35_NoIdLeak ==
  \A id \in 0..(client.maxMessageId - 1) :
    IF id \in PoolIds(client)
    THEN PendingUnder(client, id) = 0
    ELSE PendingUnder(client, id) = 1

\* The event types for which the callback is registered in l.
RegisteredFor(l, callback) ==
  {e \in EventTypes : SeqHas(l[e], callback)}

\* C36: a callback registered with on("reconnect", cb) is registered for the
\* reconnect event only, and off("reconnect", cb) after it leaves cb
\* registered for no event; the handler the constructor registers that way
\* runs only in a step in which the reconnect event fires, so a disconnect
\* event alone resends nothing.
C36_ReconnectListenerOnly ==
  /\ [](LET l0 == [e \in EventTypes |-> << >>]
            l1 == on(l0, "reconnect", UserCallback)
        IN /\ RegisteredFor(l1, UserCallback) = {"reconnect"}
           /\ RegisteredFor(off(l1, "reconnect", UserCallback),
                            UserCallback) = {}
           /\ client.peerOpen =>
                RegisteredFor(client.listeners, InternalHandler)
                  = {"reconnect"})
  /\ [][hist'.handlerRuns # hist.handlerRuns =>
          hist'.reconnects # hist.reconnects]_vars

\* C37: every var or socket envelope the server puts on a connection is put
\* on one whose init has succeeded; a connection that is registered and not
\* authenticated receives neither.
C37_PushOnlyToAuthenticated ==
  [][\A k \in Conns :
       \A i \in DOMAIN net'.s2c[k] :
         (/\ i > Len(net.s2c[k])
          /\ net'.s2c[k][i].type \in {"var", "socket"}) =>
           server'.rec[k].init]_vars

\* C38: no handler of the server dereferences a missing registry entry:
\* whenever the server sends an envelope or closes a connection, the peer it
\* addresses is in the registry, so no exception leaves a handler.
C38_ServerNeverThrows ==
  ~hist.serverThrew

\* The number of heartbeat requests among the pending requests.
PendingHeartbeats(c) ==
  Cardinality({i \in DOMAIN c.messagePromises :
                 c.messagePromises[i].data.type = "hb"})

\* C39: heartbeatDelta is between 0 and 3, at most one heartbeat timer is
\* active, and heartbeatDelta equals the number of heartbeat requests that
\* are pending.
C39_HeartbeatDelta ==
  /\ client.heartbeatDelta >= 0
  /\ client.heartbeatDelta <= Strikes
  /\ Cardinality(client.hbInterval) <= 1
  /\ client.heartbeatDelta = PendingHeartbeats(client)

====
